---- MODULE Spec2Model ----
(***************************************************************************)
(* Model of src/app.py: the provider adapters, the hybrid fallback         *)
(* (get_hybrid_report) and the per-IP pipeline (run_analysis).             *)
(*                                                                         *)
(* Python values whose type varies at run time (None, JSON values, API     *)
(* keys) are tagged records; values that are always str in the source      *)
(* (IPs, provider names, risk labels, dict keys) are plain strings.        *)
(* A Python dict is a function from its keys to its values.                *)
(***************************************************************************)
EXTENDS Integers, Sequences, FiniteSets, TLC

\* ------------------------------------------------------------ Python values
None == [type |-> "NoneType"]
Num(n) == [type |-> "int", num |-> n]
Str(s) == [type |-> "str", str |-> s]
Dict(f) == [type |-> "dict", items |-> f]
EmptyItems == [k \in {} |-> None]
EmptyDict == Dict(EmptyItems)
\* a response body that is not JSON: resp.json() raises on it
NotJson == [type |-> "invalid"]

IsDict(v) == v.type = "dict"
IsNum(v) == v.type = "int"

\* bool(v) for the tagged values
Truthy(v) ==
    CASE v.type = "NoneType" -> FALSE
      [] v.type = "int" -> v.num # 0
      [] v.type = "str" -> v.str # ""
      [] v.type = "dict" -> DOMAIN v.items # {}
      [] OTHER -> TRUE

\* d.get(k, default) on a tagged dict d
Get(d, k, default) == IF k \in DOMAIN d.items THEN d.items[k] ELSE default

\* the result of a call: a returned value or a raised exception
Return(v) == [raised |-> FALSE, value |-> v]
Raise(e) == [raised |-> TRUE, exc |-> e]

\* ------------------------------------------------------------ bounds, inputs
MaxIPs == 2
IPs == {"8.8.8.8", "1.1.1.1"}

HYBRID == "Hybrid Fallback"
VT == "VirusTotal"
ABUSE == "AbuseIPDB"
OTX == "AlienVault OTX"
Providers == {VT, ABUSE, OTX}
ApiChoices == {HYBRID} \cup Providers

api_key_env_map == (VT :> "VT_API_KEY") @@ (ABUSE :> "ABUSEIPDB_API_KEY") @@ (OTX :> "OTX_API_KEY")
EnvNames == {api_key_env_map[p] : p \in Providers}

\* (mutant) another insertion order
functions_reordered == <<ABUSE, VT, OTX>>
\* the order in which the dict `functions` of get_hybrid_report is iterated
functions == <<VT, ABUSE, OTX>>

\* os.getenv(name) for an environment env
getenv(env, name) == IF name \in DOMAIN env THEN env[name] ELSE None

\* ------------------------------------------------------------ the network
\* What requests.get produces: an exception, or a response with a status
\* code and a body.
ConnectionError == [exc |-> "ConnectionError"]
Response(status, json) == [status |-> status, json |-> json]

VTBodies ==
    { NotJson,
      EmptyDict,
      Dict("data" :> None),
      Dict("data" :> Dict("attributes" :> Dict(
          ("country" :> Str("US")) @@ ("asn" :> Num(15169)) @@
          ("last_analysis_stats" :> Dict(("malicious" :> Num(3)) @@ ("suspicious" :> Num(1))))))),
      Dict("data" :> Dict("attributes" :> Dict(
          "last_analysis_stats" :> Dict("malicious" :> None)))) }

AbuseBodies ==
    { EmptyDict,
      Dict("data" :> Dict("abuseConfidenceScore" :> Num(50))) }

OtxBodies ==
    { NotJson,
      Dict("reputation" :> Num(-2)) }

Bodies(p) == CASE p = VT -> VTBodies [] p = ABUSE -> AbuseBodies [] OTHER -> OtxBodies

NetOutcomes(p) ==
    {ConnectionError, Response(404, NotJson)} \cup {Response(200, b) : b \in Bodies(p)}

\* ------------------------------------------------------------ adapters
\* Each adapter applied to what requests.get produced for it.
get_virustotal(ip, key, net) ==
    IF "exc" \in DOMAIN net THEN Raise(net.exc)
    ELSE IF net.status # 200 THEN Return(None)
    ELSE IF net.json = NotJson THEN Raise("JSONDecodeError")
    ELSE IF ~IsDict(net.json) THEN Raise("AttributeError")
    ELSE LET d0 == Get(net.json, "data", EmptyDict) IN
    IF ~IsDict(d0) THEN Raise("AttributeError")
    ELSE LET data == Get(d0, "attributes", EmptyDict) IN
    IF ~IsDict(data) THEN Raise("AttributeError")
    ELSE LET stats == Get(data, "last_analysis_stats", EmptyDict) IN
    IF ~IsDict(stats) THEN Raise("AttributeError")
    ELSE Return(
        ("IP" :> ip) @@
        ("Country" :> Get(data, "country", Str("N/A"))) @@
        ("ASN" :> Get(data, "asn", Str("N/A"))) @@
        ("Malicious" :> Get(stats, "malicious", Num(0))) @@
        ("Suspicious" :> Get(stats, "suspicious", Num(0))) @@
        ("Abuse Confidence" :> Num(0)) @@
        ("Reputation" :> Num(0)) @@
        ("Source" :> VT))

get_abuseipdb(ip, key, net) ==
    IF "exc" \in DOMAIN net THEN Raise(net.exc)
    ELSE IF net.status # 200 THEN Return(None)
    ELSE IF net.json = NotJson THEN Raise("JSONDecodeError")
    ELSE IF ~IsDict(net.json) THEN Raise("TypeError")
    ELSE IF "data" \notin DOMAIN net.json.items THEN Raise("KeyError")
    ELSE LET data == net.json.items["data"] IN
    IF ~IsDict(data) THEN Raise("AttributeError")
    ELSE Return(
        ("IP" :> ip) @@
        ("Country" :> Get(data, "countryCode", Str("N/A"))) @@
        ("ISP" :> Get(data, "isp", Str("N/A"))) @@
        ("Malicious" :> Num(0)) @@
        ("Suspicious" :> Num(0)) @@
        ("Abuse Confidence" :> Get(data, "abuseConfidenceScore", Num(0))) @@
        ("Reputation" :> Num(0)) @@
        ("Source" :> ABUSE))

get_otx(ip, key, net) ==
    IF "exc" \in DOMAIN net THEN Raise(net.exc)
    ELSE IF net.status # 200 THEN Return(None)
    ELSE IF net.json = NotJson THEN Raise("JSONDecodeError")
    ELSE LET data == net.json IN
    IF ~IsDict(data) THEN Raise("AttributeError")
    ELSE Return(
        ("IP" :> ip) @@
        ("Country" :> Get(data, "country_name", Str("N/A"))) @@
        ("Malicious" :> Num(0)) @@
        ("Suspicious" :> Num(0)) @@
        ("Abuse Confidence" :> Num(0)) @@
        ("Reputation" :> Get(data, "reputation", Num(0))) @@
        ("Source" :> OTX))

api_function_map(name, ip, key, net) ==
    CASE name = VT -> get_virustotal(ip, key, net)
      [] name = ABUSE -> get_abuseipdb(ip, key, net)
      [] OTHER -> get_otx(ip, key, net)

\* ------------------------------------------------------------ credentials
EnvValue(name) == Str(name \o "-from-env")
ManualKey == Str("manual-key")

\* get_hybrid_report: key_to_use = manual_key if manual_key else fallback_keys.get(name)
\* (mutant) the name of the environment variable is passed instead of its value
key_to_use_env_name(manual_key, env, name) ==
    IF Truthy(manual_key) THEN manual_key ELSE Str(api_key_env_map[name])
\* (mutant) the provider's environment key is preferred to the one typed in
key_to_use_env_first(manual_key, env, name) ==
    IF Truthy(getenv(env, api_key_env_map[name])) THEN getenv(env, api_key_env_map[name])
    ELSE manual_key
key_to_use(manual_key, env, name) ==
    IF Truthy(manual_key) THEN manual_key ELSE getenv(env, api_key_env_map[name])

\* run_analysis, direct mode: key = user_api_key if user_api_key else os.getenv(...)
\* (mutant) the environment's key is preferred to the one typed in
direct_key_env_first(manual_key, env, choice) ==
    LET e == getenv(env, IF choice \in DOMAIN api_key_env_map THEN api_key_env_map[choice] ELSE "")
    IN  IF Truthy(e) THEN e ELSE manual_key
direct_key(manual_key, env, choice) ==
    IF Truthy(manual_key) THEN manual_key
    ELSE getenv(env, IF choice \in DOMAIN api_key_env_map THEN api_key_env_map[choice] ELSE "")

\* get_hybrid_report: result["Source"] = name
\* (mutant) the requested mode is stamped instead of the provider that answered
StampSourceRequested(result, name) == [result EXCEPT !["Source"] = HYBRID]
StampSource(result, name) == [result EXCEPT !["Source"] = name]

\* ------------------------------------------------------------ pipeline helpers
\* report.get(k, default) on a report (a Python dict)
RGet(r, k, default) == IF k \in DOMAIN r THEN r[k] ELSE default

\* v or 0
OrZero(v) == IF Truthy(v) THEN v ELSE Num(0)

\* (mutant) the first two columns change places
FeatureNames_swapped == <<"Suspicious", "Malicious", "Abuse Confidence", "Reputation">>
FeatureNames == <<"Malicious", "Suspicious", "Abuse Confidence", "Reputation">>

\* the one-row frame handed to rf_model.predict: its columns in order
features_df(r) ==
    [c \in 1..4 |-> [column |-> FeatureNames[c],
                     value |-> OrZero(RGet(r, FeatureNames[c], Num(0)))]]

\* rf_model.predict(features_df)[0] when it returns: the pre-trained model is a
\* fixed function of the feature row; the forest itself is not part of the
\* source, this stands in for it
Labels == {"Low", "High"}
rf_model_predict(f) ==
    IF \E c \in 1..4 : f[c].value.num > 0 THEN "High" ELSE "Low"

\* v > 0 in Python 3: defined on numbers, TypeError otherwise
GtZero(v) == IF IsNum(v) THEN Return(v.num > 0) ELSE Raise("TypeError")

\* report.get("Abuse Confidence", 0) > 0 or report.get("Malicious", 0) > 0
\* (mutant) `and` in place of `or`
alert_condition_and(r) ==
    LET a == GtZero(RGet(r, "Abuse Confidence", Num(0)))
        m == GtZero(RGet(r, "Malicious", Num(0)))
    IN  IF a.raised THEN a
        ELSE IF ~a.value THEN a
        ELSE m
alert_condition(r) ==
    LET a == GtZero(RGet(r, "Abuse Confidence", Num(0)))
        m == GtZero(RGet(r, "Malicious", Num(0)))
    IN  IF a.raised THEN a
        ELSE IF a.value THEN a
        ELSE m

\* report["AI Risk"] = risk, or "Error" when predict raised
\* (mutant) the failure label is left empty
risk_label_blank(out) == IF out.raised THEN "" ELSE out.value
risk_label(out) == IF out.raised THEN "Error" ELSE out.value

\* results.append(report)
\* (mutant) the report is put in front
list_insert_front(l, x) == <<x>> \o l
list_append(l, x) == Append(l, x)

\* an external collaborator's call either returns or raises
CallOutcomes == {Return(None), Raise("Exception")}

\* ------------------------------------------------------------ state
VARIABLES
    api_choice,     \* the sidebar's provider selection
    user_api_key,   \* the sidebar's key field ("" when left blank)
    environ,        \* the process environment read by os.getenv
    ip_list,        \* the argument of run_analysis
    pc,             \* where run_analysis stands
    i,              \* position in ip_list of the IP being processed (0: none yet)
    h,              \* get_hybrid_report: position in `functions` of the provider in turn
    resp,           \* the adapter's local `resp`: what requests.get produced
    report,         \* the local `report` of run_analysis (None until assigned in an iteration)
    results,        \* the local `results` of run_analysis
    saved,          \* what save_report has stored
    calls,          \* calls made to collaborators for the current IP, in order
    outcomes,       \* per finished IP occurrence: "appended", "absent" or "error"
    producers       \* per element of results: its position in ip_list and the
                    \* provider whose adapter call returned it

config == <<api_choice, user_api_key, environ, ip_list>>
vars == <<api_choice, user_api_key, environ, ip_list, pc, i, h, resp, report, results,
          saved, calls, outcomes, producers>>

\* The pipeline never inspects an IP, it only copies it into the report: lists
\* are taken up to renaming of the addresses, the first one being FirstIP.
FirstIP == "8.8.8.8"
IpLists == {l \in UNION {[1..n -> IPs] : n \in 0..MaxIPs} : l = <<>> \/ l[1] = FirstIP}

Environ(S) == [n \in EnvNames |-> IF n \in S THEN EnvValue(n) ELSE None]
\* Every subset of the keys where each provider's own key decides whether it is
\* called (hybrid mode, no manual key); elsewhere at most one entry of the
\* environment is consulted and the empty and the full environment stand for all.
Environs(choice, manual_key) ==
    IF choice = HYBRID /\ ~Truthy(manual_key)
    THEN {Environ(S) : S \in SUBSET EnvNames}
    ELSE {Environ({}), Environ(EnvNames)}

Init ==
    /\ api_choice \in ApiChoices
    /\ user_api_key \in {Str(""), ManualKey}
    /\ environ \in Environs(api_choice, user_api_key)
    /\ ip_list \in IpLists
    /\ pc = "for"
    /\ i = 0
    /\ h = 1
    /\ resp = None
    /\ report = None
    /\ results = <<>>
    /\ saved = <<>>
    /\ calls = <<>>
    /\ outcomes = <<>>
    /\ producers = <<>>

ip == ip_list[i]

\* how a call ended, as the log keeps it
Kind(out) == IF out.raised THEN "raised" ELSE IF out.value = None THEN "absent" ELSE "report"

\* the log entry of an adapter call: who was called, with which key, how it
\* ended and the report it returned (None when it returned none)
FetchCall(name, key, out) ==
    [op |-> "fetch", provider |-> name, key |-> key, out |-> Kind(out),
     value |-> IF Kind(out) = "report" THEN out.value ELSE None]

\* the provider whose adapter call returned the current report
Producer ==
    LET k == CHOOSE k \in 1..Len(calls) : calls[k].op = "fetch" /\ calls[k].out = "report"
    IN  calls[k].provider

\* `continue`, or the end of the loop body: this IP occurrence is finished
Finish(outcome) ==
    /\ pc' = "for"
    /\ outcomes' = Append(outcomes, outcome)

\* for ip in ip_list: take the next IP
NextIP ==
    /\ pc = "for"
    /\ i < Len(ip_list)
    /\ i' = i + 1
    /\ h' = 1
    /\ report' = None
    /\ calls' = <<>>
    /\ pc' = "resolve"
    /\ UNCHANGED <<config, resp, results, saved, outcomes, producers>>

\* return results
ReturnResults ==
    /\ pc = "for"
    /\ i = Len(ip_list)
    /\ pc' = "done"
    /\ UNCHANGED <<config, i, h, resp, report, results, saved, calls, outcomes, producers>>

\* direct mode: api_function_map[api_choice](ip, key) is entered and its
\* requests.get answers
DirectRequest ==
    /\ pc = "resolve"
    /\ api_choice # HYBRID
    /\ resp' \in NetOutcomes(api_choice)
    /\ pc' = "adapter"
    /\ UNCHANGED <<config, i, h, report, results, saved, calls, outcomes, producers>>

\* direct mode: the adapter returns or raises; if not report: continue
DirectReturn ==
    /\ pc = "adapter"
    /\ api_choice # HYBRID
    /\ LET key == direct_key(user_api_key, environ, api_choice)
           out == api_function_map(api_choice, ip, key, resp)
       IN  /\ calls' = Append(calls, FetchCall(api_choice, key, out))
           /\ IF out.raised
              THEN \* except Exception as e: print(...); continue
                   /\ Finish("error")
                   /\ report' = report
              ELSE IF out.value = None
              THEN /\ Finish("absent")
                   /\ report' = None
              ELSE /\ report' = out.value
                   /\ pc' = "predict"
                   /\ outcomes' = outcomes
    /\ resp' = None
    /\ UNCHANGED <<config, i, h, results, saved, producers>>

\* get_hybrid_report, one iteration of the loop with no key to use
HybridSkip ==
    /\ pc = "resolve"
    /\ api_choice = HYBRID
    /\ h <= Len(functions)
    /\ ~Truthy(key_to_use(user_api_key, environ, functions[h]))
    /\ h' = h + 1
    /\ UNCHANGED <<config, pc, i, resp, report, results, saved, calls, outcomes, producers>>

\* get_hybrid_report, one iteration of the loop: func(ip, key_to_use) is
\* entered and its requests.get answers
HybridRequest ==
    /\ pc = "resolve"
    /\ api_choice = HYBRID
    /\ h <= Len(functions)
    /\ Truthy(key_to_use(user_api_key, environ, functions[h]))
    /\ resp' \in NetOutcomes(functions[h])
    /\ pc' = "adapter"
    /\ UNCHANGED <<config, i, h, report, results, saved, calls, outcomes, producers>>

\* (mutant) no try around the provider call: its exception reaches run_analysis
HybridReturn_propagates ==
    /\ pc = "adapter"
    /\ api_choice = HYBRID
    /\ LET name == functions[h]
           key == key_to_use(user_api_key, environ, name)
           out == api_function_map(name, ip, key, resp)
       IN  /\ calls' = Append(calls, FetchCall(name, key, out))
           /\ IF out.raised
              THEN /\ report' = report
                   /\ Finish("error")
                   /\ h' = h
              ELSE IF out.value # None
              THEN /\ report' = StampSource(out.value, name)
                   /\ pc' = "predict"
                   /\ h' = h
                   /\ outcomes' = outcomes
              ELSE /\ report' = report
                   /\ pc' = "resolve"
                   /\ h' = h + 1
                   /\ outcomes' = outcomes
    /\ resp' = None
    /\ UNCHANGED <<config, i, results, saved, producers>>

\* (mutant) a provider whose call raised is tried a second time before the next one
HybridReturn_retries ==
    /\ pc = "adapter"
    /\ api_choice = HYBRID
    /\ LET name == functions[h]
           key == key_to_use(user_api_key, environ, name)
           out == api_function_map(name, ip, key, resp)
           first == \A k \in 1..Len(calls) : calls[k].provider # name
       IN  /\ calls' = Append(calls, FetchCall(name, key, out))
           /\ IF ~out.raised /\ out.value # None
              THEN /\ report' = StampSource(out.value, name)
                   /\ pc' = "predict"
                   /\ h' = h
              ELSE /\ report' = report
                   /\ pc' = "resolve"
                   /\ h' = IF out.raised /\ first THEN h ELSE h + 1
    /\ resp' = None
    /\ UNCHANGED <<config, i, results, saved, outcomes, producers>>
\* get_hybrid_report: the adapter returns or raises
HybridReturn ==
    /\ pc = "adapter"
    /\ api_choice = HYBRID
    /\ LET name == functions[h]
           key == key_to_use(user_api_key, environ, name)
           out == api_function_map(name, ip, key, resp)
       IN  /\ calls' = Append(calls, FetchCall(name, key, out))
           /\ IF ~out.raised /\ out.value # None
              THEN \* result["Source"] = name; return result
                   /\ report' = StampSource(out.value, name)
                   /\ pc' = "predict"
                   /\ h' = h
              ELSE \* absent, or except: continue
                   /\ report' = report
                   /\ pc' = "resolve"
                   /\ h' = h + 1
    /\ resp' = None
    /\ UNCHANGED <<config, i, results, saved, outcomes, producers>>

\* get_hybrid_report: return None; run_analysis: if not report: continue
HybridExhausted ==
    /\ pc = "resolve"
    /\ api_choice = HYBRID
    /\ h > Len(functions)
    /\ report' = None
    /\ Finish("absent")
    /\ UNCHANGED <<config, i, h, resp, results, saved, calls, producers>>

\* (mutant) the labelled report goes straight to save_report, the alert step left out
Classify_then_save ==
    /\ pc = "predict"
    /\ \E out \in {Return(rf_model_predict(features_df(report))), Raise("Exception")} :
        /\ calls' = Append(calls, [op |-> "predict", features |-> features_df(report),
                                   out |-> out])
        /\ report' = report @@ ("AI Risk" :> risk_label(out))
    /\ pc' = "save_report"
    /\ UNCHANGED <<config, i, h, resp, results, saved, outcomes, producers>>
\* (mutant) except: pass, a failed classification leaves the report without a label
Classify_unlabelled_on_failure ==
    /\ pc = "predict"
    /\ \E out \in {Return(rf_model_predict(features_df(report))), Raise("Exception")} :
        /\ calls' = Append(calls, [op |-> "predict", features |-> features_df(report),
                                   out |-> out])
        /\ report' = IF out.raised THEN report
                     ELSE report @@ ("AI Risk" :> risk_label(out))
    /\ pc' = "check_alerts"
    /\ UNCHANGED <<config, i, h, resp, results, saved, outcomes, producers>>
\* features_df; risk = rf_model.predict(features_df)[0]; report["AI Risk"] = risk
\* except: report["AI Risk"] = "Error"
Classify ==
    /\ pc = "predict"
    /\ \E out \in {Return(rf_model_predict(features_df(report))), Raise("Exception")} :
        /\ calls' = Append(calls, [op |-> "predict", features |-> features_df(report),
                                   out |-> out])
        /\ report' = report @@ ("AI Risk" :> risk_label(out))
    /\ pc' = "check_alerts"
    /\ UNCHANGED <<config, i, h, resp, results, saved, outcomes, producers>>

\* st.error(...) and print(...) of the alert step's except clause
AlertFailed == [op |-> "st.error", ip |-> report["IP"]]

\* alert_manager.check_alerts(report), inside the alert step's try
CheckAlerts ==
    /\ pc = "check_alerts"
    /\ \E out \in CallOutcomes :
        IF out.raised
        THEN /\ calls' = calls \o <<[op |-> "check_alerts", report |-> report, out |-> out],
                                    AlertFailed>>
             /\ pc' = "save_report"
        ELSE /\ calls' = Append(calls, [op |-> "check_alerts", report |-> report, out |-> out])
             /\ pc' = "should_alert"
    /\ UNCHANGED <<config, i, h, resp, report, results, saved, outcomes, producers>>

\* (mutant) no try around the alert step: a failed delivery reaches the outer handler
SendAlert_propagates ==
    /\ pc = "should_alert"
    /\ LET c == alert_condition(report) IN
        IF c.raised
        THEN calls' = Append(calls, AlertFailed) /\ pc' = "save_report" /\ outcomes' = outcomes
        ELSE IF ~c.value
        THEN calls' = calls /\ pc' = "save_report" /\ outcomes' = outcomes
        ELSE \E out \in CallOutcomes :
                LET call == [op |-> "send_email_alert", ip |-> report["IP"],
                             report |-> report, out |-> out]
                IN  IF out.raised
                    THEN calls' = calls \o <<call, AlertFailed>> /\ Finish("error")
                    ELSE calls' = Append(calls, call) /\ pc' = "save_report"
                         /\ outcomes' = outcomes
    /\ UNCHANGED <<config, i, h, resp, report, results, saved, producers>>

\* (mutant) the alert step records the delivery in the report it was handed
SendAlert_marks_report ==
    /\ pc = "should_alert"
    /\ LET c == alert_condition(report) IN
        IF c.raised
        THEN calls' = Append(calls, AlertFailed) /\ report' = report
        ELSE IF ~c.value
        THEN calls' = calls /\ report' = report
        ELSE \E out \in CallOutcomes :
                LET call == [op |-> "send_email_alert", ip |-> report["IP"],
                             report |-> report, out |-> out]
                IN  /\ calls' = IF out.raised THEN calls \o <<call, AlertFailed>>
                                ELSE Append(calls, call)
                    /\ report' = [report EXCEPT !["AI Risk"] = "Alerted"]
    /\ pc' = "save_report"
    /\ UNCHANGED <<config, i, h, resp, results, saved, outcomes, producers>>
\* if <condition>: st.success(...); alert_manager.send_email_alert(report['IP'], report)
\* except Exception as e: st.error(...)
SendAlert ==
    /\ pc = "should_alert"
    /\ LET c == alert_condition(report) IN
        IF c.raised
        THEN calls' = Append(calls, AlertFailed)
        ELSE IF ~c.value
        THEN calls' = calls
        ELSE \E out \in CallOutcomes :
                LET call == [op |-> "send_email_alert", ip |-> report["IP"],
                             report |-> report, out |-> out]
                IN  calls' = IF out.raised THEN calls \o <<call, AlertFailed>>
                             ELSE Append(calls, call)
    /\ pc' = "save_report"
    /\ UNCHANGED <<config, i, h, resp, report, results, saved, outcomes, producers>>

\* (mutant) the report is appended before it is saved
SaveReport_append_first ==
    /\ pc = "save_report"
    /\ \E out \in CallOutcomes :
        /\ calls' = Append(calls, [op |-> "save_report", report |-> report, out |-> out])
        /\ results' = list_append(results, report)
        /\ producers' = list_append(producers, [index |-> i, provider |-> Producer])
        /\ IF out.raised
           THEN /\ Finish("error")
                /\ saved' = saved
           ELSE /\ saved' = Append(saved, report)
                /\ Finish("appended")
    /\ UNCHANGED <<config, i, h, resp, report>>

\* (mutant) no outer try: an exception of save_report leaves run_analysis
SaveReport_raises ==
    /\ pc = "save_report"
    /\ \E out \in CallOutcomes :
        /\ calls' = Append(calls, [op |-> "save_report", report |-> report, out |-> out])
        /\ IF out.raised
           THEN /\ pc' = "raised"
                /\ UNCHANGED <<results, saved, producers, outcomes>>
           ELSE /\ saved' = Append(saved, report)
                /\ results' = list_append(results, report)
                /\ producers' = list_append(producers, [index |-> i, provider |-> Producer])
                /\ Finish("appended")
    /\ UNCHANGED <<config, i, h, resp, report>>
\* (mutant) a report whose IP is already in the result is saved but not appended
SaveReport_dedup ==
    /\ pc = "save_report"
    /\ \E out \in CallOutcomes :
        /\ calls' = Append(calls, [op |-> "save_report", report |-> report, out |-> out])
        /\ IF out.raised
           THEN /\ Finish("error")
                /\ UNCHANGED <<results, saved, producers>>
           ELSE /\ saved' = Append(saved, report)
                /\ IF \E k \in 1..Len(results) : results[k]["IP"] = report["IP"]
                   THEN UNCHANGED <<results, producers>>
                   ELSE /\ results' = list_append(results, report)
                        /\ producers' = list_append(producers,
                                                    [index |-> i, provider |-> Producer])
                /\ Finish("appended")
    /\ UNCHANGED <<config, i, h, resp, report>>
\* save_report(report); results.append(report)
\* except Exception as e: print(...); continue
SaveReport ==
    /\ pc = "save_report"
    /\ \E out \in CallOutcomes :
        /\ calls' = Append(calls, [op |-> "save_report", report |-> report, out |-> out])
        /\ IF out.raised
           THEN /\ Finish("error")
                /\ UNCHANGED <<results, saved, producers>>
           ELSE /\ saved' = Append(saved, report)
                /\ results' = list_append(results, report)
                /\ producers' = list_append(producers, [index |-> i, provider |-> Producer])
                /\ Finish("appended")
    /\ UNCHANGED <<config, i, h, resp, report>>

Next ==
    \/ NextIP
    \/ ReturnResults
    \/ DirectRequest
    \/ DirectReturn
    \/ HybridSkip
    \/ HybridRequest
    \/ HybridReturn
    \/ HybridExhausted
    \/ Classify
    \/ CheckAlerts
    \/ SendAlert
    \/ SaveReport

Spec == Init /\ [][Next]_vars

\* run_analysis is sequential code: a step that can be taken is taken, every
\* call to a collaborator coming back with a value or an exception
FairSpec == Spec /\ WF_vars(Next)
\* The feature extraction on its own: the fetch step has left an arbitrary
\* report in hand, each of the four numeric fields missing, null or a number,
\* and the classification step is taken on it.
FieldValues == {None, Num(0), Num(3), Num(-2)}
SomeReports ==
    {("IP" :> FirstIP) @@ ("Source" :> VT) @@ f :
        f \in UNION {[S -> FieldValues] :
                        S \in SUBSET {"Malicious", "Suspicious", "Abuse Confidence", "Reputation"}}}
FeatureInit ==
    /\ api_choice = VT
    /\ user_api_key = ManualKey
    /\ environ = Environ({})
    /\ ip_list = <<FirstIP>>
    /\ pc = "predict"
    /\ i = 1
    /\ h = 1
    /\ resp = None
    /\ report \in SomeReports
    /\ results = <<>>
    /\ saved = <<>>
    /\ calls = <<>>
    /\ outcomes = <<>>
    /\ producers = <<>>
FeatureSpec == FeatureInit /\ [][Classify]_vars
\* ------------------------------------------------------------ properties
\* positions in the log of the provider calls made for the current IP
FetchIdx == {k \in 1..Len(calls) : calls[k].op = "fetch"}
CallIdx(op) == {k \in 1..Len(calls) : calls[k].op = op}

PriorityOrder == <<"VirusTotal", "AbuseIPDB", "AlienVault OTX">>
Rank(p) == IF p = PriorityOrder[1] THEN 1 ELSE IF p = PriorityOrder[2] THEN 2 ELSE 3

\* a credential is resolvable for provider p: a manual key or p's environment key
HasCredential(p) == Truthy(user_api_key) \/ Truthy(environ[api_key_env_map[p]])
NoCredentials == \A p \in Providers : ~HasCredential(p)

\* the current IP occurrence is finished and the next has not begun
Finished == pc \in {"for", "done"} /\ i > 0
Resolved == pc \in {"predict", "check_alerts", "should_alert", "save_report"}

\* C1: in hybrid mode the providers are called in the order VirusTotal,
\* AbuseIPDB, AlienVault OTX: a call is preceded by a call of every provider
\* that comes earlier and has a credential, none of which returned a report, so
\* no provider is called after one that returned a report.
C1_HybridPriorityOrder ==
    (api_choice = HYBRID /\ calls # <<>>) =>
        \A k \in FetchIdx :
            /\ \A j \in FetchIdx : j < k =>
                   /\ Rank(calls[j].provider) < Rank(calls[k].provider)
                   /\ calls[j].out # "report"
            /\ \A p \in Providers :
                   (Rank(p) < Rank(calls[k].provider) /\ HasCredential(p)) =>
                       \E j \in FetchIdx : j < k /\ calls[j].provider = p

C1_Witness ==
    /\ api_choice = HYBRID
    /\ pc = "predict"
    /\ Cardinality(FetchIdx) = 3
    /\ calls[3].out = "report"

\* C2: in hybrid mode a provider call that raises or returns absent is
\* swallowed and the next provider with a credential is tried; the resolution
\* ends absent exactly when no provider returned a report, every provider then
\* having been skipped for want of a credential or called without success; and
\* no failure of a provider reaches run_analysis (an IP ends in error only
\* through save_report).
C2_HybridSwallowsFailures ==
    api_choice = HYBRID =>
        /\ Resolved => \E k \in FetchIdx : calls[k].out = "report"
        /\ Finished =>
            /\ outcomes[i] = "absent" <=> \A k \in FetchIdx : calls[k].out # "report"
            /\ outcomes[i] = "absent" =>
                /\ report = None
                /\ \A p \in Providers :
                      IF HasCredential(p)
                      THEN \E k \in FetchIdx : /\ calls[k].provider = p
                                               /\ calls[k].out \in {"raised", "absent"}
                      ELSE \A k \in FetchIdx : calls[k].provider # p
            /\ outcomes[i] = "error" =>
                /\ calls[Len(calls)].op = "save_report"
                /\ calls[Len(calls)].out.raised

C2_Witness ==
    /\ api_choice = HYBRID
    /\ Finished
    /\ outcomes[i] = "absent"
    /\ Cardinality(FetchIdx) = 3
    /\ calls[1].out = "raised"
    /\ calls[2].out = "absent"
    /\ calls[3].out = "raised"

\* C3: in hybrid mode with no credential for any provider, no adapter is ever
\* called, every IP's resolution is absent, and run_analysis returns the
\* empty list without any IP ending in error.
C3_NoCredentialsNoCalls ==
    (api_choice = HYBRID /\ NoCredentials) =>
        /\ pc \in {"for", "resolve", "done"}
        /\ calls = <<>>
        /\ report = None
        /\ results = <<>>
        /\ \A k \in 1..Len(outcomes) : outcomes[k] = "absent"
        /\ pc = "done" => Len(outcomes) = Len(ip_list)

C3_Witness ==
    /\ api_choice = HYBRID
    /\ NoCredentials
    /\ pc = "done"
    /\ Len(ip_list) >= 2

\* C4: the Source of the report in hand, of every report handed to
\* send_email_alert or save_report, and of every report in the result list, is
\* the provider whose adapter call returned that report, in both modes.
C4_SourceIsProducer ==
    /\ (Resolved /\ report # None) => report["Source"] = Producer
    /\ \A k \in CallIdx("send_email_alert") \cup CallIdx("save_report") :
           calls[k].report["Source"] = Producer
    /\ Len(producers) = Len(results)
    /\ \A k \in 1..Len(results) : results[k]["Source"] = producers[k].provider

C4_Witness ==
    /\ api_choice = HYBRID
    /\ Finished
    /\ outcomes[i] = "appended"
    /\ results[Len(results)]["Source"] = "AbuseIPDB"
    /\ CallIdx("send_email_alert") # {}
    /\ calls[1].provider = "VirusTotal"

\* C5: the IPs of the result list are a subsequence of the input list, in input
\* order (each element of the result comes from a later position of the input
\* than the one before it and carries that position's IP), and no element
\* comes from an IP occurrence whose resolution was absent.
C5_ResultIsSubsequence ==
    /\ Len(producers) = Len(results)
    /\ \A k \in 1..Len(results) :
        /\ producers[k].index \in 1..Len(ip_list)
        /\ results[k]["IP"] = ip_list[producers[k].index]
        /\ \A j \in 1..(k - 1) : producers[j].index < producers[k].index
        /\ producers[k].index <= Len(outcomes)
        /\ outcomes[producers[k].index] = "appended"
    /\ \A n \in 1..Len(outcomes) :
        outcomes[n] = "absent" => \A k \in 1..Len(results) : producers[k].index # n

C5_Witness ==
    /\ pc = "done"
    /\ Len(ip_list) = 2
    /\ ip_list[1] # ip_list[2]
    /\ outcomes = <<"absent", "appended">>
    /\ Len(results) = 1
    /\ results[1]["IP"] = ip_list[2]

\* the raw signal of a report: abuse_confidence > 0 or malicious_count > 0
Positive(v) == IsNum(v) /\ v.num > 0
Signal(r) == Positive(r["Abuse Confidence"]) \/ Positive(r["Malicious"])

\* the alert step of the current IP is over
AlertStepDone == pc \in {"save_report", "for", "done"} /\ CallIdx("check_alerts") # {}
CheckAlertsReturned == \E k \in CallIdx("check_alerts") : ~calls[k].out.raised
\* send_email_alert was invoked with (r["IP"], r)
Sent(r) == \E k \in CallIdx("send_email_alert") : calls[k].ip = r["IP"] /\ calls[k].report = r

\* C6 as stated: for every report that went through the alert step,
\* send_email_alert(ip, report) was invoked iff abuse_confidence > 0 or
\* malicious_count > 0.
C6_AlertIffSignal ==
    AlertStepDone => (Sent(report) <=> Signal(report))

\* C6 as amended: for every report that went through the alert step,
\* send_email_alert(ip, report) was invoked, once, iff check_alerts(report)
\* returned without raising and abuse_confidence > 0 or malicious_count > 0,
\* whatever the risk label.
C6_AlertIffCheckedAndSignal ==
    AlertStepDone =>
        /\ Sent(report) <=> (CheckAlertsReturned /\ Signal(report))
        /\ Cardinality(CallIdx("send_email_alert")) <= 1
        /\ \A k \in CallIdx("send_email_alert") : calls[k].report = report

C6_Witness ==
    /\ AlertStepDone
    /\ Sent(report)
    /\ report["AI Risk"] = "Error"
    /\ Positive(report["Abuse Confidence"])

\* C7: when the classifier raises for a report, the report is labelled
\* "Error" and goes on through the pipeline: it is handed to the alert step,
\* the alert decision is taken on the raw counts, it is handed to save_report
\* and, save_report returning, it is the report appended to the result.
C7_ClassifierFailureIsolated ==
    \A k \in CallIdx("predict") : calls[k].out.raised =>
        /\ pc \in {"check_alerts", "should_alert", "save_report", "for", "done"}
        /\ report["AI Risk"] = "Error"
        /\ pc # "check_alerts" =>
               \E c \in CallIdx("check_alerts") : c > k /\ calls[c].report = report
        /\ AlertStepDone => (Sent(report) <=> (CheckAlertsReturned /\ Signal(report)))
        /\ Finished =>
               \E s \in CallIdx("save_report") :
                   /\ calls[s].report = report
                   /\ IF calls[s].out.raised
                      THEN outcomes[i] = "error"
                      ELSE /\ outcomes[i] = "appended"
                           /\ results[Len(results)] = report

C7_Witness ==
    /\ Finished
    /\ \E k \in CallIdx("predict") : calls[k].out.raised
    /\ outcomes[i] = "appended"
    /\ results[Len(results)]["AI Risk"] = "Error"
    /\ Sent(report)

\* C8: a failure inside the alert step (check_alerts raising, the comparison
\* raising, send_email_alert raising) is only surfaced: the report is still
\* handed to save_report and, save_report returning, appended to the result,
\* and the run goes on to the end of the list.
C8_AlertFailureIsolated ==
    /\ \A k \in CallIdx("check_alerts") \cup CallIdx("send_email_alert") :
           calls[k].out.raised => (k < Len(calls) /\ calls[k + 1].op = "st.error")
    /\ \A e \in CallIdx("st.error") :
        /\ pc \in {"save_report", "for", "done"}
        /\ Finished =>
               \E s \in CallIdx("save_report") :
                   /\ s > e
                   /\ calls[s].report = report
                   /\ IF calls[s].out.raised
                      THEN outcomes[i] = "error"
                      ELSE /\ outcomes[i] = "appended"
                           /\ results[Len(results)] = report
    /\ pc = "done" => (i = Len(ip_list) /\ Len(outcomes) = Len(ip_list))

C8_Witness ==
    /\ pc = "done"
    /\ Len(ip_list) = 2
    /\ outcomes = <<"appended", "appended">>
    /\ \E k \in CallIdx("send_email_alert") : calls[k].out.raised
    /\ ~Positive(results[1]["Malicious"]) /\ ~IsNum(results[1]["Malicious"])

\* the adapter call in progress and what it is about to do
InTurn == IF api_choice = HYBRID THEN functions[h] ELSE api_choice
AdapterOutcome ==
    api_function_map(InTurn, ip,
        IF api_choice = HYBRID THEN key_to_use(user_api_key, environ, InTurn)
        ELSE direct_key(user_api_key, environ, api_choice),
        resp)

\* C9: a failure that no inner boundary handles (the adapter raising in direct
\* mode, save_report raising) ends that IP occurrence in error and nothing
\* else: the run is back at the head of the loop with the result list, the
\* input and the position untouched, the result list only ever grows by the
\* report of an occurrence that ends appended, and no element of the result
\* comes from an occurrence that ended in error.
C9_FailureSkipsOnlyThatIP ==
    [][ /\ (pc = "adapter" /\ api_choice # HYBRID /\ AdapterOutcome.raised)
            => outcomes' = Append(outcomes, "error")
        /\ (pc = "save_report" /\ calls' # calls /\ calls'[Len(calls')].out.raised)
            => outcomes' = Append(outcomes, "error")
        /\ outcomes' = Append(outcomes, "error")
            => (pc' = "for" /\ results' = results /\ i' = i /\ ip_list' = ip_list)
        /\ results' # results
            => (outcomes' = Append(outcomes, "appended") /\ results' = Append(results, report))
        /\ \A n \in 1..Len(outcomes') : outcomes'[n] = "error"
            => \A k \in 1..Len(results') : producers'[k].index # n
      ]_vars

C9_Witness ==
    /\ pc = "done"
    /\ api_choice # HYBRID
    /\ outcomes = <<"error", "appended">>
    /\ Len(results) = 1
    /\ producers[1].index = 2
    /\ calls[1].op = "fetch"

\* C10: whatever a provider's response holds, its adapter does not raise
\* because of it: on a status other than 200 it returns absent, and on status
\* 200 with a JSON object as payload, whatever fields are missing or malformed
\* inside it, it returns a report.
C10_AdaptersNeverRaiseOnContent ==
    (pc = "adapter" /\ "status" \in DOMAIN resp) =>
        /\ resp.status # 200 => AdapterOutcome = Return(None)
        /\ (resp.status = 200 /\ IsDict(resp.json)) =>
               (~AdapterOutcome.raised /\ AdapterOutcome.value # None)

\* the credential the sidebar and the environment resolve to for provider p
Credential(p) ==
    IF Truthy(user_api_key) THEN user_api_key ELSE environ[api_key_env_map[p]]

\* C11: in direct mode the only adapter called is the selected provider's, once
\* per IP occurrence, with the manual key when one was typed in and with the
\* selected provider's environment key otherwise; the report the pipeline goes
\* on with is the adapter's result as returned, and an absent result ends the
\* occurrence as absent.
C11_DirectCallsSelectedOnce ==
    api_choice # HYBRID =>
        /\ \A k \in FetchIdx :
               /\ calls[k].provider = api_choice
               /\ calls[k].key = Credential(api_choice)
        /\ Cardinality(FetchIdx) <= 1
        /\ (Resolved \/ Finished) => (Cardinality(FetchIdx) = 1 /\ calls[1].op = "fetch")
        /\ pc = "predict" => (calls[1].out = "report" /\ report = calls[1].value)
        /\ Finished =>
               /\ calls[1].out = "absent" <=> outcomes[i] = "absent"
               /\ calls[1].out = "absent" => (report = None /\ Len(calls) = 1)

C11_Witness ==
    /\ api_choice = ABUSE
    /\ user_api_key = ManualKey
    /\ environ = Environ(EnvNames)
    /\ pc = "predict"
    /\ calls[1].key = ManualKey
    /\ report = calls[1].value

\* C12: in hybrid mode the key handed to a provider is the manual key whenever
\* one was typed in, the same for every provider tried and whatever the
\* environment holds, and the provider's own environment key otherwise; a
\* provider whose turn has passed was called exactly when a credential
\* resolves for it, and an occurrence for which every provider was skipped
\* ends absent, not in error.
C12_HybridCredentialPerProvider ==
    api_choice = HYBRID =>
        /\ \A k \in FetchIdx :
               /\ Truthy(calls[k].key)
               /\ calls[k].key = Credential(calls[k].provider)
               /\ Truthy(user_api_key) =>
                      (calls[k].key = user_api_key /\ \A n \in EnvNames : calls[k].key # environ[n])
        /\ \A q \in 1..Len(PriorityOrder) : q < h =>
               (HasCredential(PriorityOrder[q]) <=>
                    \E k \in FetchIdx : calls[k].provider = PriorityOrder[q])
        /\ (Finished /\ FetchIdx = {}) => outcomes[i] = "absent"

C12_Witness ==
    /\ api_choice = HYBRID
    /\ ~Truthy(user_api_key)
    /\ environ = Environ({"OTX_API_KEY"})
    /\ pc = "predict"
    /\ Len(calls) = 1
    /\ calls[1].provider = OTX
    /\ calls[1].key = EnvValue("OTX_API_KEY")

\* the step of the per-IP pipeline a logged call belongs to
StepRank(op) ==
    IF op = "fetch" THEN 1
    ELSE IF op = "predict" THEN 2
    ELSE IF op = "save_report" THEN 4
    ELSE 3
\* the logged calls that are handed the report
Handed == CallIdx("check_alerts") \cup CallIdx("send_email_alert") \cup CallIdx("save_report")

\* C13: for one IP occurrence the steps run in the order fetch, classify,
\* alert, persist: the classifier is called only after a provider returned a
\* report, the alert step and save_report only after the risk label was
\* attached, save_report only after the alert step; and every step in progress
\* belongs to the occurrence in turn, all earlier occurrences having ended.
C13_StepsInOrder ==
    /\ \A k \in 1..(Len(calls) - 1) : StepRank(calls[k].op) <= StepRank(calls[k + 1].op)
    /\ \A k \in CallIdx("predict") :
           \E j \in FetchIdx : j < k /\ calls[j].out = "report"
    /\ \A k \in Handed :
           /\ \E j \in CallIdx("predict") : j < k
           /\ "AI Risk" \in DOMAIN calls[k].report
           /\ calls[k].report["IP"] = ip_list[i]
    /\ \A k \in CallIdx("send_email_alert") :
           \E j \in CallIdx("check_alerts") : j < k /\ ~calls[j].out.raised
    /\ \A k \in CallIdx("save_report") :
           /\ \E j \in CallIdx("check_alerts") : j < k
           /\ k = Len(calls)
    /\ IF pc \in {"for", "done"}
       THEN Len(outcomes) = i
       ELSE i >= 1 /\ Len(outcomes) = i - 1
    /\ calls # <<>> => i >= 1

C13_Witness ==
    /\ pc = "for"
    /\ i = 2
    /\ outcomes = <<"appended", "appended">>
    /\ \E f \in FetchIdx : \E p \in CallIdx("predict") : \E c \in CallIdx("check_alerts") :
       \E a \in CallIdx("send_email_alert") : \E s \in CallIdx("save_report") :
           f < p /\ p < c /\ c < a /\ a < s

\* C14: whatever the list and whatever fails on the way (provider calls, the
\* classifier, the alert step, save_report), run_analysis comes to its return
\* statement: it has then been through every occurrence of the list, what it
\* returns is the list of the reports appended, and for the empty list that is
\* the empty list.
C14_TerminatesWithResults ==
    /\ <>(pc = "done")
    /\ [](pc = "done" =>
            /\ i = Len(ip_list)
            /\ Len(outcomes) = Len(ip_list)
            /\ Len(results) = Cardinality({n \in 1..Len(outcomes) : outcomes[n] = "appended"})
            /\ ip_list = <<>> => results = <<>>)

C14_Witness ==
    /\ pc = "done"
    /\ Len(ip_list) = 2
    /\ outcomes = <<"error", "error">>
    /\ results = <<>>
    /\ \E k \in CallIdx("predict") : calls[k].out.raised
    /\ \E k \in CallIdx("check_alerts") : calls[k].out.raised
    /\ \E k \in CallIdx("save_report") : calls[k].out.raised

\* the value the feature row is to hold for field k of report r
FieldOrZero(r, k) == IF k \in DOMAIN r /\ r[k] # None THEN r[k] ELSE Num(0)

\* C15: the row handed to the classifier has exactly the four columns
\* Malicious, Suspicious, Abuse Confidence, Reputation, in that order, each
\* holding the report's value for the field, or 0 when the report has no such
\* field or holds null there; a report with none of the four yields 0, 0, 0, 0;
\* and with a report in hand the classification step can always be taken.
C15_FeatureRow ==
    /\ \A k \in CallIdx("predict") :
        LET f == calls[k].features IN
        /\ DOMAIN f = 1..4
        /\ f[1] = [column |-> "Malicious", value |-> FieldOrZero(report, "Malicious")]
        /\ f[2] = [column |-> "Suspicious", value |-> FieldOrZero(report, "Suspicious")]
        /\ f[3] = [column |-> "Abuse Confidence", value |-> FieldOrZero(report, "Abuse Confidence")]
        /\ f[4] = [column |-> "Reputation", value |-> FieldOrZero(report, "Reputation")]
        /\ DOMAIN report \cap {"Malicious", "Suspicious", "Abuse Confidence", "Reputation"} = {}
            => \A c \in 1..4 : f[c].value = Num(0)
    /\ pc = "predict" => ENABLED Classify

C15_Witness ==
    /\ DOMAIN report = {"IP", "Source", "AI Risk", "Suspicious", "Reputation"}
    /\ report["Suspicious"] = None
    /\ report["Reputation"] = Num(-2)
    /\ \E k \in CallIdx("predict") :
        /\ calls[k].features[1].value = Num(0)
        /\ calls[k].features[2].value = Num(0)
        /\ calls[k].features[4].value = Num(-2)

\* C16: the report of an IP occurrence comes into being once, as the value an
\* adapter call returns (the hybrid stamp of Source leaving it as returned);
\* the only later change to it is the classification step adding the risk
\* label, every other field kept; the alert step, save_report and the append
\* leave it as it is, and the reports already in the result are never touched.
C16_ReportMutatedOnce ==
    [][ /\ report' # report =>
            \/ pc = "for" /\ report' = None
            \/ pc = "resolve" /\ report = None /\ report' = None
            \/ pc = "adapter" /\ report = None /\ ~AdapterOutcome.raised
                              /\ report' = AdapterOutcome.value
            \/ /\ pc = "predict"
               /\ "AI Risk" \notin DOMAIN report
               /\ DOMAIN report' = DOMAIN report \cup {"AI Risk"}
               /\ \A f \in DOMAIN report : report'[f] = report[f]
        /\ pc \in {"check_alerts", "should_alert", "save_report"} => report' = report
        /\ results' # results =>
            /\ pc = "save_report"
            /\ results' = Append(results, report)
            /\ saved' = Append(saved, report)
      ]_vars

C16_Witness ==
    /\ api_choice = HYBRID
    /\ Finished
    /\ outcomes[i] = "appended"
    /\ Len(results) = 2
    /\ Sent(report)
    /\ results[2] = report
    /\ \E k \in FetchIdx : report = calls[k].value @@ ("AI Risk" :> "High")

\* C17: the result list is the sequence of the reports save_report has
\* stored, in the order it stored them: a save_report that returned has its
\* report as the last element of the result, one that raised has left the
\* result without a report of that occurrence, and the result has as many
\* elements as occurrences ended appended.
C17_ResultIsWhatWasSaved ==
    /\ results = saved
    /\ Len(results) = Cardinality({n \in 1..Len(outcomes) : outcomes[n] = "appended"})
    /\ \A s \in CallIdx("save_report") :
        IF calls[s].out.raised
        THEN /\ outcomes[i] = "error"
             /\ \A k \in 1..Len(results) : producers[k].index # i
        ELSE /\ outcomes[i] = "appended"
             /\ results # <<>>
             /\ results[Len(results)] = calls[s].report
             /\ producers[Len(results)].index = i

C17_Witness ==
    /\ pc = "done"
    /\ ip_list = <<FirstIP, FirstIP>>
    /\ outcomes = <<"appended", "appended">>
    /\ Len(saved) = 2
    /\ results = saved
    /\ saved[1] # saved[2]

\* the feature row of report r, field by field
RowOf(r) ==
    <<[column |-> "Malicious", value |-> FieldOrZero(r, "Malicious")],
      [column |-> "Suspicious", value |-> FieldOrZero(r, "Suspicious")],
      [column |-> "Abuse Confidence", value |-> FieldOrZero(r, "Abuse Confidence")],
      [column |-> "Reputation", value |-> FieldOrZero(r, "Reputation")]>>

\* C18: every report handed to check_alerts, send_email_alert or save_report
\* carries a risk label, which is the label the classifier returned when it was
\* called on that report's feature row, or "Error" when that call raised; and
\* every report of the result list carries the classifier's label for its
\* feature row or "Error".
C18_LabelledDownstream ==
    /\ \A k \in Handed :
        LET r == calls[k].report IN
        /\ "AI Risk" \in DOMAIN r
        /\ \E p \in CallIdx("predict") :
            /\ p < k
            /\ calls[p].features = RowOf(r)
            /\ r["AI Risk"] = IF calls[p].out.raised THEN "Error" ELSE calls[p].out.value
    /\ \A k \in 1..Len(results) :
        /\ "AI Risk" \in DOMAIN results[k]
        /\ results[k]["AI Risk"] \in {"Error", rf_model_predict(RowOf(results[k]))}
    /\ pc \in {"check_alerts", "should_alert", "save_report"} => "AI Risk" \in DOMAIN report

C18_Witness ==
    /\ pc = "done"
    /\ Len(results) = 2
    /\ results[1]["AI Risk"] = "Error"
    /\ results[2]["AI Risk"] = "High"
    /\ \E k \in CallIdx("send_email_alert") : calls[k].report["AI Risk"] = "High"

\* how many calls of the kind op the current IP occurrence has made
Count(op) == Cardinality(CallIdx(op))

\* C19: for one IP occurrence no provider's adapter is called twice, whatever
\* its first call did, so at most three provider calls are made; and the
\* classifier, check_alerts, send_email_alert and save_report are called at
\* most once each.
C19_AtMostOnce ==
    /\ \A p \in Providers : Cardinality({k \in FetchIdx : calls[k].provider = p}) <= 1
    /\ Cardinality(FetchIdx) <= 3
    /\ Count("predict") <= 1
    /\ Count("check_alerts") <= 1
    /\ Count("send_email_alert") <= 1
    /\ Count("save_report") <= 1

C19_Witness ==
    /\ api_choice = HYBRID
    /\ Finished
    /\ Cardinality(FetchIdx) = 2
    /\ calls[1].out = "raised"
    /\ calls[2].provider = ABUSE
    /\ Count("predict") = 1
    /\ Count("check_alerts") = 1
    /\ Count("send_email_alert") = 1
    /\ Count("save_report") = 1

====
